---- MODULE Spec2Model ----
(***************************************************************************)
(* Model of the n8n Ethereum nodes: Ethereum (transfer, transferERC20,     *)
(* getBalance, getERC20Balance, getGas), EthereumSign (signMessage) and    *)
(* EthereumCreateWallet (createWallet).                                    *)
(*                                                                         *)
(* One run of the model is one call of a node's execute().  The host       *)
(* (getNodeParameter, getInputData) and the ethers library (JsonRpc-       *)
(* Provider, Wallet, Contract) are the environment: a parameter is a field *)
(* of params, and every library call that can reject or fail over the      *)
(* network has both outcomes.                                              *)
(*                                                                         *)
(* Strings that the code parses (amounts) are sequences of one-character   *)
(* strings.  A JavaScript BigInt is a record [ok, neg, mag] with mag the   *)
(* decimal digits, most significant first, so 10^18 needs no machine       *)
(* integer.  A JavaScript Number produced by parseFloat is the exact       *)
(* decimal [nan, neg, int, frac]: IEEE-754 rounding of parseFloat and of   *)
(* the product with 10^d is not modelled, so the model agrees with the     *)
(* code wherever the double computation is exact.                          *)
(***************************************************************************)
EXTENDS Integers, Sequences, FiniteSets, TLC

VARIABLES
    node,         \* which node's execute() runs
    params,       \* the node parameters the host resolves (getNodeParameter)
    items,        \* the input batch (getInputData)
    pc,           \* position in execute()
    i,            \* loop index
    chainId,      \* const chainId
    provider,     \* "none" | "connected"
    cur,          \* the locals of the current loop iteration
    returnData,   \* const returnData
    output,       \* what execute() returned: [returned |-> FALSE] until it does
    err,          \* the error execute() threw, "none" until it does
    network,      \* the endpoint: what the probe found
    probes,       \* number of provider.getNetwork() calls made
    started,      \* indices whose loop iteration has begun
    readLog,      \* <<index, field>> pairs read from input records
    txRequests,   \* transaction requests handed to the signer, in order
    signatures,   \* indices for which wallet.signMessage was called
    conv          \* a conversion applied on its own (SpecConv)

vars == <<node, params, items, pc, i, chainId, provider, cur, returnData, output,
          err, network, probes, started, readLog, txRequests, signatures, conv>>

-----------------------------------------------------------------------------
(* Bounds *)

MaxItems == 2

MaxCount == 3

MaxLen == 5

-----------------------------------------------------------------------------
(* JavaScript values *)

Null == "<null>"

DigitChars == <<"0", "1", "2", "3", "4", "5", "6", "7", "8", "9">>

IsDigit(c) == \E d \in 1..10 : DigitChars[d] = c

DigitVal(c) == (CHOOSE d \in 1..10 : DigitChars[d] = c) - 1

RECURSIVE Zeros(_)
Zeros(n) == IF n <= 0 THEN <<>> ELSE <<0>> \o Zeros(n - 1)

RECURSIVE StripZeros(_)
StripZeros(m) ==
    IF Len(m) = 0 THEN <<0>>
    ELSE IF m[1] = 0 /\ Len(m) > 1 THEN StripZeros(Tail(m))
    ELSE m

\* magnitude + 1 on most-significant-first digits
RECURSIVE Increment(_)
Increment(m) ==
    IF Len(m) = 0 THEN <<1>>
    ELSE IF m[Len(m)] < 9 THEN [m EXCEPT ![Len(m)] = @ + 1]
    ELSE Increment(SubSeq(m, 1, Len(m) - 1)) \o <<0>>

AllZero(m) == \A k \in 1..Len(m) : m[k] = 0

Thrown == [ok |-> FALSE, neg |-> FALSE, mag |-> <<>>]

\* a BigInt in canonical form (no leading zeros, no negative zero)
MkBigInt(neg, m) ==
    LET s == StripZeros(m)
    IN  [ok |-> TRUE, neg |-> neg /\ ~AllZero(s), mag |-> s]

\* number of digit characters of s from position p on
RECURSIVE DigitRun(_, _)
DigitRun(s, p) ==
    IF p > Len(s) \/ ~IsDigit(s[p]) THEN 0 ELSE 1 + DigitRun(s, p + 1)

DigitsOf(s, p, n) == [k \in 1..n |-> DigitVal(s[p + k - 1])]

NaN == [nan |-> TRUE, neg |-> FALSE, int |-> <<>>, frac |-> <<>>]

\* parseFloat(s): the longest prefix [-]digits[.digits] or [-].digits, NaN
\* when there is none
parseFloat(s) ==
    LET neg == Len(s) >= 1 /\ s[1] = "-"
        p   == IF neg THEN 2 ELSE 1
        n1  == DigitRun(s, p)
        dot == p + n1 <= Len(s) /\ s[p + n1] = "."
        n2  == IF dot THEN DigitRun(s, p + n1 + 1) ELSE 0
    IN  IF n1 = 0 /\ n2 = 0 THEN NaN
        ELSE [nan |-> FALSE, neg |-> neg,
              int |-> DigitsOf(s, p, n1),
              frac |-> IF n2 = 0 THEN <<>> ELSE DigitsOf(s, p + n1 + 1, n2)]

\* x * 10 ** d
TimesPow10(x, d) ==
    IF x.nan THEN NaN
    ELSE IF Len(x.frac) <= d
         THEN [x EXCEPT !.int = x.int \o x.frac \o Zeros(d - Len(x.frac)),
                        !.frac = <<>>]
         ELSE [x EXCEPT !.int = x.int \o SubSeq(x.frac, 1, d),
                        !.frac = SubSeq(x.frac, d + 1, Len(x.frac))]

\* Math.floor(x): toward minus infinity
MathFloor(x) ==
    IF x.nan THEN NaN
    ELSE IF x.neg /\ ~AllZero(x.frac)
         THEN [x EXCEPT !.int = Increment(x.int), !.frac = <<>>]
         ELSE [x EXCEPT !.frac = <<>>]

\* BigInt(number): a RangeError for NaN
BigIntOfNumber(x) == IF x.nan THEN Thrown ELSE MkBigInt(x.neg, x.int)

\* BigInt(string): "" is 0n, [-]digits is that integer, a SyntaxError otherwise
BigIntOfString(s) ==
    LET neg == Len(s) >= 1 /\ s[1] = "-"
        p   == IF neg THEN 2 ELSE 1
        n   == DigitRun(s, p)
    IN  IF Len(s) = 0 THEN MkBigInt(FALSE, <<0>>)
        ELSE IF n = 0 \/ p + n - 1 # Len(s) THEN Thrown
        ELSE MkBigInt(neg, DigitsOf(s, p, n))

includesDot(s) == \E k \in 1..Len(s) : s[k] = "."

NativeDecimals == 18

DefaultTokenDecimals == 18

\* mutant: the amount is scaled whatever its shape
ValueWeiAlwaysScaled(valueStr) ==
    BigIntOfNumber(MathFloor(TimesPow10(parseFloat(valueStr), NativeDecimals)))

\* transfer: const valueWei = valueStr.includes('.') ? BigInt(Math.floor(
\* parseFloat(valueStr) * 1e18)) : BigInt(valueStr)
ValueWei(valueStr) ==
    IF includesDot(valueStr)
    THEN BigIntOfNumber(MathFloor(TimesPow10(parseFloat(valueStr), NativeDecimals)))
    ELSE BigIntOfString(valueStr)

\* transferERC20: const decimals = tokenDecimals || 18
TokenDecimals(tokenDecimals) ==
    IF tokenDecimals = 0 THEN DefaultTokenDecimals ELSE tokenDecimals

\* transferERC20: BigInt(Math.floor(parseFloat(amountHuman) * 10 ** decimals))
AmountWei(amountHuman, decimals) ==
    BigIntOfNumber(MathFloor(TimesPow10(parseFloat(amountHuman), decimals)))

-----------------------------------------------------------------------------
(* The host: parameters and input records *)

Fields == {"privateKey", "to", "amount", "address", "message"}

\* the field-name parameters keep their defaults
privateKeyField == "privateKey"

toAddressField == "to"

valueField == "amount"

addressField == "address"

messageField == "message"

Url == "https://rpc"

A15 == "1.5"

AM1 == "-1"

AX == "x"

A0 == "0"

\* the characters of the amount strings of the model
Chars(s) ==
    CASE s = A15 -> <<"1", ".", "5">>
      [] s = AM1 -> <<"-", "1">>
      [] s = AX -> <<"x">>
      [] s = A0 -> <<"0">>

\* { json: {} }
EmptyItem == [f \in Fields |-> Null]

FullItem(a) ==
    [privateKey |-> "0xKEY", to |-> "0xTO2", amount |-> a,
     address |-> "0xADDR2", message |-> "hello"]

\* the input records of the model: a complete record, or one with one of the
\* fields the operation reads absent, unparseable or invalid
TransferRecords ==
    {FullItem(A15), FullItem(AM1), [FullItem(A15) EXCEPT !.amount = AX]}
    \cup {[FullItem(A15) EXCEPT ![f] = Null] : f \in {"privateKey", "to", "amount"}}
    \cup {[FullItem(A15) EXCEPT !.privateKey = "bad"]}

AddressRecords == {FullItem(A15), [FullItem(A15) EXCEPT !.address = Null]}

SignRecords ==
    {FullItem(A15)}
    \cup {[FullItem(A15) EXCEPT ![f] = Null] : f \in {"privateKey", "message"}}
    \cup {[FullItem(A15) EXCEPT !.privateKey = k] : k \in {"bad", ""}}

AnyRecords == {FullItem(A15), EmptyItem}

RecordsFor(n, op) ==
    IF n = "EthereumSign" THEN SignRecords
    ELSE IF n = "EthereumCreateWallet" \/ op = "getGas" THEN AnyRecords
    ELSE IF op \in {"getBalance", "getERC20Balance"} THEN AddressRecords
    ELSE TransferRecords

RECURSIVE SeqsUpTo(_, _)
SeqsUpTo(S, n) ==
    IF n = 0 THEN {<<>>}
    ELSE LET shorter == SeqsUpTo(S, n - 1)
         IN  shorter \cup {Append(s, x) : s \in {t \in shorter : Len(t) = n - 1}, x \in S}

DefaultParams ==
    [operation |-> "transfer", rpcUrl |-> "", chainId |-> 1,
     toAddressSource |-> "parameter", toAddress |-> "",
     valueSource |-> "parameter", valueWei |-> A0,
     erc20AmountSource |-> "parameter", erc20Amount |-> A0,
     tokenAddress |-> "", tokenDecimals |-> 18,
     addressSource |-> "parameter", address |-> "",
     addressSourceErc20 |-> "parameter", addressErc20 |-> "",
     messageSource |-> "parameter", message |-> "", count |-> 1]

ChainIdParams == {0, 137}

NetworkChainIds == {1, 137}

\* the value of one source selector and of the static parameter beside it
ToCfgs == {<<"parameter", "0xTO">>, <<"input", "">>}

AmountCfgs == {<<"parameter", A15>>, <<"parameter", AM1>>, <<"input", A0>>}

AddressCfgs == {<<"parameter", "0xADDR">>, <<"parameter", "">>, <<"input", "">>}

MessageCfgs == {<<"parameter", "hi">>, <<"input", "">>}

EthereumParams ==
    {[DefaultParams EXCEPT !.operation = op, !.rpcUrl = u] :
        op \in {"getGas", "transfer", "transferERC20", "getBalance", "getERC20Balance"},
        u \in {"", " "}}
    \cup {[DefaultParams EXCEPT !.operation = "getGas", !.rpcUrl = Url, !.chainId = c] :
        c \in ChainIdParams}
    \cup {[DefaultParams EXCEPT !.operation = "transfer", !.rpcUrl = Url, !.chainId = c,
                                !.toAddressSource = t[1], !.toAddress = t[2],
                                !.valueSource = a[1], !.valueWei = a[2]] :
        c \in ChainIdParams, t \in ToCfgs, a \in AmountCfgs}
    \cup {[DefaultParams EXCEPT !.operation = "transferERC20", !.rpcUrl = Url, !.chainId = c,
                                !.tokenAddress = "0xTOKEN", !.tokenDecimals = d,
                                !.toAddressSource = t[1], !.toAddress = t[2],
                                !.erc20AmountSource = a[1], !.erc20Amount = a[2]] :
        c \in ChainIdParams, t \in ToCfgs, a \in AmountCfgs, d \in {0, 2}}
    \cup {[DefaultParams EXCEPT !.operation = "getBalance", !.rpcUrl = Url, !.chainId = c,
                                !.addressSource = a[1], !.address = a[2]] :
        c \in ChainIdParams, a \in AddressCfgs}
    \cup {[DefaultParams EXCEPT !.operation = "getERC20Balance", !.rpcUrl = Url,
                                !.chainId = c, !.tokenAddress = "0xTOKEN",
                                !.addressSourceErc20 = a[1], !.addressErc20 = a[2]] :
        c \in ChainIdParams, a \in AddressCfgs}

SignParams ==
    {[DefaultParams EXCEPT !.operation = "signMessage", !.rpcUrl = u, !.chainId = c,
                           !.messageSource = m[1], !.message = m[2]] :
        u \in {"", " ", Url}, c \in ChainIdParams, m \in MessageCfgs}
    \cup {[DefaultParams EXCEPT !.operation = "other"]}

CreateWalletParams ==
    {[DefaultParams EXCEPT !.operation = op, !.count = n] :
        op \in {"createWallet", "other"}, n \in 0..MaxCount}

\* rpcUrl?.trim()
Trim(s) == IF s = " " THEN "" ELSE s

\* chainIdParam != null && chainIdParam > 0 ? Number(chainIdParam) : 1
ChainIdOf(chainIdParam) == IF chainIdParam > 0 THEN chainIdParam ELSE 1

\* mutant: an empty input is looped over as it is
WorkItemsAsGiven == items

\* const workItems = items.length > 0 ? items : [{ json: {} }]
WorkItems == IF Len(items) > 0 THEN items ELSE <<EmptyItem>>

\* getItemValue(item, key), items being indexed from 0
getItemValue(ws, idx, key) == ws[idx + 1][key]

\* new Wallet(key): ethers rejects what is no private key
ValidKey(k) == k = "0xKEY"

WalletAddress(k) == <<"addressOf", k>>

-----------------------------------------------------------------------------
(* State *)

CurInit ==
    [privateKey |-> Null, toAddress |-> Null, valueStr |-> Null, valueWei |-> Thrown,
     wallet |-> Null, tx |-> 0, receipt |-> Null, address |-> Null,
     message |-> Null, signature |-> Null, steps |-> <<>>, calls |-> {}]

NoOutput == [returned |-> FALSE, data |-> <<>>]

Unprobed == [state |-> "unprobed", chainId |-> 0]

NetworkStates ==
    {[state |-> "unreachable", chainId |-> 0]}
    \cup {[state |-> "up", chainId |-> c] : c \in NetworkChainIds}

NoConv == [kind |-> "none", str |-> <<>>, decimals |-> 0, out |-> Thrown, done |-> FALSE]

InitRun ==
    /\ pc = "start"
    /\ i = 0
    /\ chainId = 0
    /\ provider = "none"
    /\ cur = CurInit
    /\ returnData = <<>>
    /\ output = NoOutput
    /\ err = "none"
    /\ network = Unprobed
    /\ probes = 0
    /\ started = {}
    /\ readLog = {}
    /\ txRequests = <<>>
    /\ signatures = {}

Init ==
    /\ InitRun
    /\ conv = NoConv
    /\ \/ node = "Ethereum" /\ params \in EthereumParams
       \/ node = "EthereumSign" /\ params \in SignParams
       \/ node = "EthereumCreateWallet" /\ params \in CreateWalletParams
    /\ items \in SeqsUpTo(RecordsFor(node, params.operation), MaxItems)

env == <<node, params, items, conv>>

Fail(e) == pc' = "failed" /\ err' = e

\* the statement of the item's body that has just completed
Step(c, name) == [c EXCEPT !.steps = Append(@, name)]

Return(data) == pc' = "returned" /\ output' = [returned |-> TRUE, data |-> data]

-----------------------------------------------------------------------------
(* Ethereum.execute *)

\* mutant: every record is tagged with the first item
PairedItemFirst(idx) == 0

\* pairedItem: { item: i }
PairedItem(idx) == idx

\* operation, rpcUrl; if (!rpcUrl) throw
E_Start ==
    /\ node = "Ethereum" /\ pc = "start"
    /\ IF Trim(params.rpcUrl) = ""
       THEN Fail("RPC URL is required")
       ELSE pc' = "connect" /\ err' = err
    /\ UNCHANGED <<env, i, chainId, provider, cur, returnData, output, network, probes,
                   started, readLog, txRequests, signatures>>

\* mutant: a failed probe is swallowed and the run goes on
E_ConnectIgnoreFailure ==
    /\ node = "Ethereum" /\ pc = "connect"
    /\ probes' = probes + 1
    /\ \E n \in NetworkStates :
          /\ network' = n
          /\ provider' = "connected" /\ pc' = "dispatch" /\ err' = err
    /\ UNCHANGED <<env, i, chainId, cur, returnData, output, started, readLog,
                   txRequests, signatures>>

\* provider = new JsonRpcProvider(rpcUrl); await provider.getNetwork()
E_Connect ==
    /\ node = "Ethereum" /\ pc = "connect"
    /\ probes' = probes + 1
    /\ \E n \in NetworkStates :
          /\ network' = n
          /\ IF n.state = "up"
             THEN provider' = "connected" /\ pc' = "dispatch" /\ err' = err
             ELSE provider' = provider /\ Fail("RPC failed")
    /\ UNCHANGED <<env, i, chainId, cur, returnData, output, started, readLog,
                   txRequests, signatures>>

\* chainId, items, returnData; the getGas branch or the item loop
E_Dispatch ==
    /\ node = "Ethereum" /\ pc = "dispatch"
    /\ chainId' = ChainIdOf(params.chainId)
    /\ i' = 0
    /\ pc' = IF params.operation = "getGas" THEN "getFeeData" ELSE "loop"
    /\ UNCHANGED <<env, provider, cur, returnData, output, err, network, probes,
                   started, readLog, txRequests, signatures>>

\* const feeData = await provider.getFeeData()
G_GetFeeData ==
    /\ node = "Ethereum" /\ pc = "getFeeData"
    /\ \E ok \in BOOLEAN :
          IF ok THEN pc' = "getBlock" /\ err' = err ELSE Fail("network error")
    /\ UNCHANGED <<env, i, chainId, provider, cur, returnData, output, network, probes,
                   started, readLog, txRequests, signatures>>

\* mutant: one fee record per input item
G_GetBlockPerItem ==
    /\ node = "Ethereum" /\ pc = "getBlock"
    /\ returnData' = [k \in 1..Len(items) |->
                        [json |-> [kind |-> "getGas", chainId |-> chainId],
                         pairedItem |-> PairedItem(k - 1)]]
    /\ Return(returnData')
    /\ UNCHANGED <<env, i, chainId, provider, cur, err, network, probes, started,
                   readLog, txRequests, signatures>>

\* const block = await provider.getBlock('latest'); push; return [returnData]
G_GetBlock ==
    /\ node = "Ethereum" /\ pc = "getBlock"
    /\ \E ok \in BOOLEAN :
          IF ok
          THEN LET rec == [json |-> [kind |-> "getGas", chainId |-> chainId],
                           pairedItem |-> PairedItem(0)]
               IN  /\ returnData' = Append(returnData, rec)
                   /\ Return(returnData')
                   /\ err' = err
          ELSE Fail("network error") /\ UNCHANGED <<returnData, output>>
    /\ UNCHANGED <<env, i, chainId, provider, cur, network, probes, started, readLog,
                   txRequests, signatures>>

FirstStep(op) ==
    CASE op = "transfer" -> "t_signer"
      [] op = "transferERC20" -> "e_signer"
      [] op = "getBalance" -> "b_address"
      [] op = "getERC20Balance" -> "eb_address"

\* for (let i = 0; i < workItems.length; i++) { const item = workItems[i]; ... }
\* return [returnData]
E_Loop ==
    /\ node = "Ethereum" /\ pc = "loop"
    /\ IF i < Len(WorkItems)
       THEN /\ started' = started \cup {i}
            /\ cur' = CurInit
            /\ pc' = FirstStep(params.operation)
            /\ output' = output
       ELSE /\ Return(returnData)
            /\ UNCHANGED <<started, cur>>
    /\ UNCHANGED <<env, i, chainId, provider, returnData, err, network, probes,
                   readLog, txRequests, signatures>>

\* mutant: a missing private key is not checked
ResolveSignerNoCheck(next) ==
    LET pkRaw == getItemValue(WorkItems, i, privateKeyField)
    IN  /\ readLog' = readLog \cup {<<i, privateKeyField>>}
        /\ pc' = next /\ err' = err
        /\ cur' = Step([cur EXCEPT !.privateKey = pkRaw], "signer")
        /\ UNCHANGED <<env, i, chainId, provider, returnData, output, network, probes,
                       started, txRequests, signatures>>

\* pkRaw = getItemValue(item, privateKeyField); throw when undefined or null
ResolveSigner(next) ==
    LET pkRaw == getItemValue(WorkItems, i, privateKeyField)
    IN  /\ readLog' = readLog \cup {<<i, privateKeyField>>}
        /\ IF pkRaw = Null
           THEN Fail("missing private key") /\ cur' = cur
           ELSE /\ pc' = next /\ err' = err
                /\ cur' = Step([cur EXCEPT !.privateKey = pkRaw], "signer")
        /\ UNCHANGED <<env, i, chainId, provider, returnData, output, network, probes,
                       started, txRequests, signatures>>

\* toAddress = toAddressSource === 'parameter' ? toAddress : getItemValue(item, field)
ResolveRecipient(next) ==
    /\ IF params.toAddressSource = "parameter"
       THEN /\ cur' = Step([cur EXCEPT !.toAddress = params.toAddress], "recipient")
            /\ readLog' = readLog
       ELSE /\ cur' = Step([cur EXCEPT !.toAddress =
                                getItemValue(WorkItems, i, toAddressField)], "recipient")
            /\ readLog' = readLog \cup {<<i, toAddressField>>}
    /\ pc' = next
    /\ UNCHANGED <<env, i, chainId, provider, returnData, output, err, network, probes,
                   started, txRequests, signatures>>

\* v != null ? String(v) : '0'
AmountFromRecord(v) == IF v # Null THEN v ELSE "0"

\* mutant: an item with an invalid key is skipped and the loop goes on
MakeWalletSkipInvalid(next) ==
    /\ IF ValidKey(cur.privateKey)
       THEN /\ pc' = next /\ i' = i
            /\ cur' = Step([cur EXCEPT !.wallet = WalletAddress(cur.privateKey)], "wallet")
       ELSE /\ pc' = (IF node = "Ethereum" THEN "loop" ELSE "s_loop") /\ i' = i + 1
            /\ cur' = cur
    /\ UNCHANGED <<env, chainId, provider, returnData, output, err, network, probes,
                   started, readLog, txRequests, signatures>>

\* new Wallet(privateKey.trim(), provider)
MakeWallet(next) ==
    /\ IF ValidKey(cur.privateKey)
       THEN pc' = next /\ err' = err
            /\ cur' = Step([cur EXCEPT !.wallet = WalletAddress(cur.privateKey)], "wallet")
       ELSE Fail("invalid private key") /\ cur' = cur
    /\ UNCHANGED <<env, i, chainId, provider, returnData, output, network, probes,
                   started, readLog, txRequests, signatures>>

\* mutant: the loop goes on to the next item without awaiting the transaction
SendTxDetached(kind, next) ==
    /\ txRequests' = Append(txRequests,
                            [item |-> i, kind |-> kind, from |-> cur.wallet,
                             to |-> cur.toAddress, value |-> cur.valueWei,
                             state |-> "pending"])
    /\ returnData' = Append(returnData, [json |-> [kind |-> kind, hash |-> Len(txRequests) + 1],
                                         pairedItem |-> PairedItem(i)])
    /\ i' = i + 1
    /\ pc' = "loop"
    /\ UNCHANGED <<env, chainId, provider, cur, output, err, network, probes, started,
                   readLog, signatures>>

\* the request handed to the signer, and whether the endpoint took it
SendTx(kind, next) ==
    /\ \E ok \in BOOLEAN :
          LET req == [item |-> i, kind |-> kind, from |-> cur.wallet,
                      to |-> cur.toAddress, value |-> cur.valueWei,
                      state |-> IF ok THEN "pending" ELSE "rejected"]
          IN  /\ txRequests' = Append(txRequests, req)
              /\ IF ok
                 THEN pc' = next /\ err' = err
                      /\ cur' = Step([cur EXCEPT !.tx = Len(txRequests) + 1], "submit")
                 ELSE Fail("send failed") /\ cur' = cur
    /\ UNCHANGED <<env, i, chainId, provider, returnData, output, network, probes,
                   started, readLog, signatures>>

\* mutant: the receipt is not awaited
WaitTxNoWait(next) ==
    /\ pc' = next
    /\ UNCHANGED <<env, i, chainId, provider, cur, returnData, output, err, network,
                   probes, started, readLog, txRequests, signatures>>

\* const receipt = await tx.wait()
WaitTx(next) ==
    /\ \E ok \in BOOLEAN :
          IF ok
          THEN /\ pc' = next /\ err' = err
               /\ cur' = Step([cur EXCEPT !.receipt = "mined"], "wait")
               /\ txRequests' = [txRequests EXCEPT ![cur.tx].state = "mined"]
          ELSE /\ Fail("wait failed") /\ cur' = cur
               /\ txRequests' = [txRequests EXCEPT ![cur.tx].state = "unconfirmed"]
    /\ UNCHANGED <<env, i, chainId, provider, returnData, output, network, probes,
                   started, readLog, signatures>>

\* returnData.push({ json, pairedItem: { item: i } }); then i++ and the loop test
Push(json, loop) ==
    /\ returnData' = Append(returnData, [json |-> json, pairedItem |-> PairedItem(i)])
    /\ cur' = Step(cur, "emit")
    /\ i' = i + 1
    /\ pc' = loop
    /\ UNCHANGED <<env, chainId, provider, output, err, network, probes, started,
                   readLog, txRequests, signatures>>

T_Signer == node = "Ethereum" /\ pc = "t_signer" /\ ResolveSigner("t_recipient")

T_Recipient == node = "Ethereum" /\ pc = "t_recipient" /\ ResolveRecipient("t_amount")

\* valueStr from the parameter or the record; valueWei
T_Amount ==
    /\ node = "Ethereum" /\ pc = "t_amount"
    /\ LET fromParam == params.valueSource = "parameter"
           valueStr == IF fromParam THEN params.valueWei
                       ELSE AmountFromRecord(getItemValue(WorkItems, i, valueField))
           valueWei == ValueWei(Chars(valueStr))
       IN  /\ readLog' = IF fromParam THEN readLog ELSE readLog \cup {<<i, valueField>>}
           /\ IF valueWei.ok
              THEN /\ pc' = "t_wallet" /\ err' = err
                   /\ cur' = Step([cur EXCEPT !.valueStr = valueStr,
                                              !.valueWei = valueWei], "amount")
              ELSE /\ Fail("conversion error")
                   /\ cur' = [cur EXCEPT !.valueStr = valueStr, !.valueWei = valueWei]
    /\ UNCHANGED <<env, i, chainId, provider, returnData, output, network, probes,
                   started, txRequests, signatures>>

T_Wallet == node = "Ethereum" /\ pc = "t_wallet" /\ MakeWallet("t_send")

\* mutant: the transaction is submitted a second time
T_SendTwice ==
    /\ node = "Ethereum" /\ pc = "t_send"
    /\ SendTx("transfer", IF cur.tx = 0 THEN "t_send" ELSE "t_wait")

\* const tx = await wallet.sendTransaction({ to: toAddress, value: valueWei })
T_Send == node = "Ethereum" /\ pc = "t_send" /\ SendTx("transfer", "t_wait")

T_Wait == node = "Ethereum" /\ pc = "t_wait" /\ WaitTx("t_push")

T_Push ==
    /\ node = "Ethereum" /\ pc = "t_push"
    /\ Push([kind |-> "transfer", chainId |-> chainId, hash |-> cur.tx,
             from |-> cur.wallet, to |-> cur.toAddress, value |-> cur.valueWei],
            "loop")

E20_Signer == node = "Ethereum" /\ pc = "e_signer" /\ ResolveSigner("e_recipient")

E20_Recipient == node = "Ethereum" /\ pc = "e_recipient" /\ ResolveRecipient("e_amount")

\* amountHuman from the parameter or the record; decimals; amountWei
E20_Amount ==
    /\ node = "Ethereum" /\ pc = "e_amount"
    /\ LET fromParam == params.erc20AmountSource = "parameter"
           amountHuman == IF fromParam THEN params.erc20Amount
                          ELSE AmountFromRecord(getItemValue(WorkItems, i, valueField))
           amountWei == AmountWei(Chars(amountHuman), TokenDecimals(params.tokenDecimals))
       IN  /\ readLog' = IF fromParam THEN readLog ELSE readLog \cup {<<i, valueField>>}
           /\ IF amountWei.ok
              THEN /\ pc' = "e_wallet" /\ err' = err
                   /\ cur' = Step([cur EXCEPT !.valueStr = amountHuman,
                                              !.valueWei = amountWei], "amount")
              ELSE /\ Fail("conversion error")
                   /\ cur' = [cur EXCEPT !.valueStr = amountHuman, !.valueWei = amountWei]
    /\ UNCHANGED <<env, i, chainId, provider, returnData, output, network, probes,
                   started, txRequests, signatures>>

E20_Wallet == node = "Ethereum" /\ pc = "e_wallet" /\ MakeWallet("e_send")

\* const tx = await contractWithSigner.transfer(toAddress, amountWei)
E20_Send == node = "Ethereum" /\ pc = "e_send" /\ SendTx("transferERC20", "e_wait")

E20_Wait == node = "Ethereum" /\ pc = "e_wait" /\ WaitTx("e_push")

E20_Push ==
    /\ node = "Ethereum" /\ pc = "e_push"
    /\ Push([kind |-> "transferERC20", chainId |-> chainId, hash |-> cur.tx,
             from |-> cur.wallet, to |-> cur.toAddress,
             tokenAddress |-> params.tokenAddress, amount |-> cur.valueWei,
             amountHuman |-> cur.valueStr],
            "loop")

\* address from the parameter or the record; if (!address) throw
ResolveAddress(source, static, next) ==
    LET fromParam == source = "parameter"
        address == IF fromParam THEN static
                   ELSE getItemValue(WorkItems, i, addressField)
    IN  /\ readLog' = IF fromParam THEN readLog ELSE readLog \cup {<<i, addressField>>}
        /\ IF address = Null \/ address = ""
           THEN Fail("address is required") /\ cur' = cur
           ELSE /\ pc' = next /\ err' = err
                /\ cur' = Step([cur EXCEPT !.address = address], "address")
        /\ UNCHANGED <<env, i, chainId, provider, returnData, output, network, probes,
                       started, txRequests, signatures>>

\* a read over the connection, awaited, then the push
QueryAndPush(json) ==
    \E ok \in BOOLEAN :
       IF ok THEN Push(json, "loop")
       ELSE /\ Fail("network error")
            /\ UNCHANGED <<env, i, chainId, provider, cur, returnData, output, network,
                           probes, started, readLog, txRequests, signatures>>

B_Address ==
    /\ node = "Ethereum" /\ pc = "b_address"
    /\ ResolveAddress(params.addressSource, params.address, "b_query")

\* const balance = await provider.getBalance(address); push
B_Query ==
    /\ node = "Ethereum" /\ pc = "b_query"
    /\ QueryAndPush([kind |-> "getBalance", chainId |-> chainId, address |-> cur.address])

EB_Address ==
    /\ node = "Ethereum" /\ pc = "eb_address"
    /\ ResolveAddress(params.addressSourceErc20, params.addressErc20, "eb_query")

\* Promise.all([contract.balanceOf(address), contract.decimals()]): both reads
\* are issued before either is awaited
EB_Query ==
    /\ node = "Ethereum" /\ pc = "eb_query"
    /\ cur' = [cur EXCEPT !.calls = {"balanceOf", "decimals"}]
    /\ pc' = "eb_await"
    /\ UNCHANGED <<env, i, chainId, provider, returnData, output, err, network, probes,
                   started, readLog, txRequests, signatures>>

\* await Promise.all(...): one read settles; the first rejection rejects the
\* whole, the last fulfilment fulfils it
EB_Settle ==
    /\ node = "Ethereum" /\ pc = "eb_await"
    /\ \E c \in cur.calls, ok \in BOOLEAN :
          /\ cur' = [cur EXCEPT !.calls = @ \ {c}]
          /\ IF ~ok THEN Fail("network error")
             ELSE /\ err' = err
                  /\ pc' = IF cur.calls = {c} THEN "eb_push" ELSE "eb_await"
    /\ UNCHANGED <<env, i, chainId, provider, returnData, output, network, probes,
                   started, readLog, txRequests, signatures>>

\* returnData.push({ json: { address, tokenAddress, balance, ... }, pairedItem })
EB_Push ==
    /\ node = "Ethereum" /\ pc = "eb_push"
    /\ Push([kind |-> "getERC20Balance", chainId |-> chainId,
             address |-> cur.address, tokenAddress |-> params.tokenAddress],
            "loop")

EthereumNext ==
    \/ E_Start \/ E_Connect \/ E_Dispatch \/ G_GetFeeData \/ G_GetBlock \/ E_Loop
    \/ T_Signer \/ T_Recipient \/ T_Amount \/ T_Wallet \/ T_Send \/ T_Wait \/ T_Push
    \/ E20_Signer \/ E20_Recipient \/ E20_Amount \/ E20_Wallet \/ E20_Send \/ E20_Wait
    \/ E20_Push
    \/ B_Address \/ B_Query \/ EB_Address \/ EB_Query \/ EB_Settle \/ EB_Push

-----------------------------------------------------------------------------
(* EthereumSign.execute *)

\* mutant: the connection is probed whether or not an RPC URL is set
S_StartAlwaysProbe ==
    /\ node = "EthereumSign" /\ pc = "start"
    /\ chainId' = ChainIdOf(params.chainId)
    /\ i' = 0
    /\ pc' = "s_connect"
    /\ UNCHANGED <<env, provider, cur, returnData, output, err, network, probes,
                   started, readLog, txRequests, signatures>>

\* operation, privateKeyField, rpcUrl, chainId, items, returnData; if (rpcUrl)
S_Start ==
    /\ node = "EthereumSign" /\ pc = "start"
    /\ chainId' = ChainIdOf(params.chainId)
    /\ i' = 0
    /\ pc' = IF Trim(params.rpcUrl) # "" THEN "s_connect" ELSE "s_loop"
    /\ UNCHANGED <<env, provider, cur, returnData, output, err, network, probes,
                   started, readLog, txRequests, signatures>>

\* provider.getNetwork(); the chain ids must agree
S_Connect ==
    /\ node = "EthereumSign" /\ pc = "s_connect"
    /\ probes' = probes + 1
    /\ \E n \in NetworkStates :
          /\ network' = n
          /\ IF n.state # "up"
             THEN provider' = provider /\ Fail("RPC failed")
             ELSE /\ provider' = "connected"
                  /\ IF chainId # n.chainId
                     THEN Fail("Chain ID mismatch")
                     ELSE pc' = "s_loop" /\ err' = err
    /\ UNCHANGED <<env, i, chainId, cur, returnData, output, started, readLog,
                   txRequests, signatures>>

\* for (let i = 0; i < items.length; i++) { const item = items[i]; ... }
\* return [returnData]
S_Loop ==
    /\ node = "EthereumSign" /\ pc = "s_loop"
    /\ IF i < Len(items)
       THEN /\ started' = started \cup {i}
            /\ cur' = CurInit
            /\ pc' = "s_key"
            /\ output' = output
       ELSE /\ Return(returnData)
            /\ UNCHANGED <<started, cur>>
    /\ UNCHANGED <<env, i, chainId, provider, returnData, err, network, probes,
                   readLog, txRequests, signatures>>

\* privateKeyRaw = item.json[privateKeyField]; throw when missing or blank
S_Key ==
    /\ node = "EthereumSign" /\ pc = "s_key"
    /\ LET privateKeyRaw == getItemValue(items, i, privateKeyField)
       IN  /\ readLog' = readLog \cup {<<i, privateKeyField>>}
           /\ IF privateKeyRaw = Null
              THEN Fail("missing private key") /\ cur' = cur
              ELSE IF Trim(privateKeyRaw) = ""
              THEN Fail("private key is empty") /\ cur' = cur
              ELSE /\ pc' = "s_wallet" /\ err' = err
                   /\ cur' = Step([cur EXCEPT !.privateKey = privateKeyRaw], "signer")
    /\ UNCHANGED <<env, i, chainId, provider, returnData, output, network, probes,
                   started, txRequests, signatures>>

\* wallet = provider ? new Wallet(key, provider) : new Wallet(key)
S_Wallet == node = "EthereumSign" /\ pc = "s_wallet" /\ MakeWallet("s_message")

\* message from the parameter or the record; throw when the field is missing
S_Message ==
    /\ node = "EthereumSign" /\ pc = "s_message"
    /\ IF params.operation # "signMessage"
       THEN /\ cur' = Step([cur EXCEPT !.message = ""], "message")
            /\ pc' = "s_sign" /\ err' = err /\ readLog' = readLog
       ELSE IF params.messageSource = "parameter"
       THEN /\ cur' = Step([cur EXCEPT !.message = params.message], "message")
            /\ pc' = "s_sign" /\ err' = err /\ readLog' = readLog
       ELSE LET value == getItemValue(items, i, messageField)
            IN  /\ readLog' = readLog \cup {<<i, messageField>>}
                /\ IF value = Null
                   THEN Fail("missing message field") /\ cur' = cur
                   ELSE /\ pc' = "s_sign" /\ err' = err
                        /\ cur' = Step([cur EXCEPT !.message = value], "message")
    /\ UNCHANGED <<env, i, chainId, provider, returnData, output, network, probes,
                   started, txRequests, signatures>>

\* const signature = await wallet.signMessage(message)
S_Sign ==
    /\ node = "EthereumSign" /\ pc = "s_sign"
    /\ signatures' = signatures \cup {i}
    /\ cur' = Step([cur EXCEPT !.signature = <<"sig", cur.privateKey, cur.message>>],
                   "sign")
    /\ pc' = "s_push"
    /\ UNCHANGED <<env, i, chainId, provider, returnData, output, err, network, probes,
                   started, readLog, txRequests>>

S_Push ==
    /\ node = "EthereumSign" /\ pc = "s_push"
    /\ Push([kind |-> "signMessage", message |-> cur.message,
             signature |-> cur.signature, address |-> cur.wallet, chainId |-> chainId],
            "s_loop")

SignNext ==
    S_Start \/ S_Connect \/ S_Loop \/ S_Key \/ S_Wallet \/ S_Message \/ S_Sign \/ S_Push

-----------------------------------------------------------------------------
(* EthereumCreateWallet.execute *)

CountMin == 1

CountMax == 100

\* operation, count; if (operation !== 'createWallet') return [[]]
W_Start ==
    /\ node = "EthereumCreateWallet" /\ pc = "start"
    /\ IF params.operation # "createWallet"
       THEN Return(<<>>) /\ i' = i
       ELSE pc' = "w_loop" /\ i' = 0 /\ output' = output
    /\ UNCHANGED <<env, chainId, provider, cur, returnData, err, network, probes,
                   started, readLog, txRequests, signatures>>

\* mutant: the loop runs while i <= count
W_LoopInclusive ==
    /\ node = "EthereumCreateWallet" /\ pc = "w_loop"
    /\ IF i <= params.count
       THEN /\ returnData' = Append(returnData,
                                    [json |-> [kind |-> "createWallet", wallet |-> i],
                                     pairedItem |-> PairedItem(i)])
            /\ i' = i + 1
            /\ UNCHANGED <<pc, output>>
       ELSE Return(returnData) /\ UNCHANGED <<returnData, i>>
    /\ UNCHANGED <<env, chainId, provider, cur, err, network, probes, started, readLog,
                   txRequests, signatures>>

\* for (let i = 0; i < count; i++) { Wallet.createRandom(); push }; return
W_Loop ==
    /\ node = "EthereumCreateWallet" /\ pc = "w_loop"
    /\ IF i < params.count
       THEN /\ returnData' = Append(returnData,
                                    [json |-> [kind |-> "createWallet", wallet |-> i],
                                     pairedItem |-> PairedItem(i)])
            /\ i' = i + 1
            /\ UNCHANGED <<pc, output>>
       ELSE Return(returnData) /\ UNCHANGED <<returnData, i>>
    /\ UNCHANGED <<env, chainId, provider, cur, err, network, probes, started, readLog,
                   txRequests, signatures>>

CreateWalletNext == W_Start \/ W_Loop

-----------------------------------------------------------------------------
(* The nodes *)

Next == EthereumNext \/ SignNext \/ CreateWalletNext

Spec == Init /\ [][Next]_vars

-----------------------------------------------------------------------------
(* The amount conversions on their own, over every short string *)

ConvAlphabet == {"0", "1", "9", ".", "-", "x"}

ConvStrings == SeqsUpTo(ConvAlphabet, MaxLen)

ConvDecimals == {0, 1, 2, 18}

InitConv ==
    /\ InitRun
    /\ node = "none"
    /\ params = DefaultParams
    /\ items = <<>>
    /\ \E s \in ConvStrings :
          \/ conv = [kind |-> "native", str |-> s, decimals |-> NativeDecimals,
                     out |-> Thrown, done |-> FALSE]
          \/ \E d \in ConvDecimals :
                conv = [kind |-> "token", str |-> s, decimals |-> d,
                        out |-> Thrown, done |-> FALSE]

run == <<pc, i, chainId, provider, cur, returnData, output, err, network, probes,
         started, readLog, txRequests, signatures>>

ConvertNative ==
    /\ conv.kind = "native" /\ ~conv.done
    /\ conv' = [conv EXCEPT !.out = ValueWei(conv.str), !.done = TRUE]
    /\ UNCHANGED <<node, params, items, run>>

ConvertToken ==
    /\ conv.kind = "token" /\ ~conv.done
    /\ conv' = [conv EXCEPT !.out = AmountWei(conv.str, TokenDecimals(conv.decimals)),
                            !.done = TRUE]
    /\ UNCHANGED <<node, params, items, run>>

NextConv == ConvertNative \/ ConvertToken

SpecConv == InitConv /\ [][NextConv]_vars

-----------------------------------------------------------------------------
(* Properties *)

Op == params.operation

PerItemRun ==
    \/ node = "Ethereum" /\ Op \in {"transfer", "transferERC20", "getBalance", "getERC20Balance"}
    \/ node = "EthereumSign" /\ Op = "signMessage"

SignerRun ==
    \/ node = "Ethereum" /\ Op \in {"transfer", "transferERC20"}
    \/ node = "EthereumSign"

\* the records the loop of the running node goes over
Batch == IF node = "Ethereum" THEN WorkItems ELSE items

\* the values the configuration takes from a field of the record
FromRecordFields ==
    IF node = "Ethereum" /\ Op = "transfer"
    THEN (IF params.toAddressSource = "input" THEN {"to"} ELSE {})
         \cup (IF params.valueSource = "input" THEN {"amount"} ELSE {})
    ELSE IF node = "Ethereum" /\ Op = "transferERC20"
    THEN (IF params.toAddressSource = "input" THEN {"to"} ELSE {})
         \cup (IF params.erc20AmountSource = "input" THEN {"amount"} ELSE {})
    ELSE IF node = "Ethereum" /\ Op = "getBalance"
    THEN (IF params.addressSource = "input" THEN {"address"} ELSE {})
    ELSE IF node = "Ethereum" /\ Op = "getERC20Balance"
    THEN (IF params.addressSourceErc20 = "input" THEN {"address"} ELSE {})
    ELSE IF node = "EthereumSign" /\ Op = "signMessage"
    THEN (IF params.messageSource = "input" THEN {"message"} ELSE {})
    ELSE {}

RequiredFields == FromRecordFields \cup (IF SignerRun THEN {"privateKey"} ELSE {})

AllRequiredPresent ==
    \A k \in 1..Len(items) : \A f \in RequiredFields : items[k][f] # Null

TaggedInOrder(data) == \A k \in 1..Len(data) : data[k].pairedItem = k - 1

\* C1 as stated: a per-item operation that returns from K complete input records
\* returns exactly K output records, the k-th tagged with index k, for every K >= 0.
C1_KRecordsForKItems ==
    (pc = "returned" /\ PerItemRun /\ AllRequiredPresent)
        => Len(output.data) = Len(items) /\ TaggedInOrder(output.data)

\* C1 amended: a per-item operation that returns from K >= 1 complete input records
\* returns exactly K output records tagged 0..K-1 in order; with K = 0 SignMessage
\* returns none and an Ethereum-node operation returns the one record of its
\* synthetic empty item, tagged 0.
C1_RecordsPerWorkItem ==
    (pc = "returned" /\ PerItemRun /\ AllRequiredPresent)
        => /\ Len(items) >= 1 => Len(output.data) = Len(items)
           /\ Len(items) = 0 => Len(output.data) = (IF node = "Ethereum" THEN 1 ELSE 0)
           /\ TaggedInOrder(output.data)

C1_Witness ==
    /\ pc = "returned" /\ node = "Ethereum" /\ Op = "transfer"
    /\ Len(items) = 2 /\ AllRequiredPresent
    /\ Len(output.data) = 2 /\ output.data[2].pairedItem = 1

ChainMismatch == network.state = "up" /\ network.chainId # ChainIdOf(params.chainId)

\* C2: once the connection has reported a chain id other than the declared one, no
\* item is ever started and the run returns no output record, in every node that
\* runs with a connection.
C2_MismatchAbortsBatch ==
    ChainMismatch => started = {} /\ returnData = <<>> /\ ~output.returned

\* C3: when item j lacks its private-key field in a run that needs a signer, no
\* output record is tagged j or later, no transaction and no signature is produced
\* for j, no later item starts, and once j's key has been looked up the run has
\* failed with the missing-key error and returns nothing.
C3_MissingKeyAborts ==
    SignerRun =>
        \A j \in 0..(Len(Batch) - 1) :
            Batch[j + 1].privateKey = Null =>
                /\ \A k \in 1..Len(returnData) : returnData[k].pairedItem < j
                /\ \A k \in 1..Len(txRequests) : txRequests[k].item # j
                /\ j \notin signatures
                /\ \A k \in started : k <= j
                /\ ~output.returned
                /\ (j \in started /\ pc \notin {"t_signer", "e_signer", "s_key"})
                      => pc = "failed" /\ err = "missing private key"

C3_Witness ==
    /\ pc = "failed" /\ err = "missing private key"
    /\ Len(items) = 2 /\ items[2].privateKey = Null
    /\ started = {0, 1} /\ Len(returnData) = 1

\* a value the configuration takes from the record is absent from item idx
Unresolved(idx) == \E f \in FromRecordFields : Batch[idx + 1][f] = Null

\* C4: an item whose record lacks a field that a FromRecord value names gets no
\* transaction request and no output record.
C4_MissingFieldAborts ==
    /\ \A k \in 1..Len(txRequests) : ~Unresolved(txRequests[k].item)
    /\ \A k \in 1..Len(returnData) : ~Unresolved(returnData[k].pairedItem)

\* C5: getGas reads no input record and starts no item, and when it returns it
\* returns exactly one record, whatever the number of input records.
C5_GetGasOneRecord ==
    (node = "Ethereum" /\ Op = "getGas") =>
        /\ readLog = {} /\ started = {}
        /\ pc = "returned" => Len(output.data) = 1 /\ output.data[1].pairedItem = 0

C5_Witness ==
    /\ node = "Ethereum" /\ Op = "getGas" /\ pc = "returned"
    /\ Len(items) = 0 /\ Len(output.data) = 1

\* C6: createWallet with a count N in 1..100 returns exactly N records, tagged
\* 0..N-1, and never reads an input record.
C6_CreateWalletCount ==
    (node = "EthereumCreateWallet" /\ Op = "createWallet") =>
        /\ readLog = {} /\ started = {}
        /\ (pc = "returned" /\ params.count \in CountMin..CountMax)
              => Len(output.data) = params.count /\ TaggedInOrder(output.data)

C6_Witness ==
    /\ node = "EthereumCreateWallet" /\ Op = "createWallet" /\ pc = "returned"
    /\ params.count = 2 /\ Len(items) = 1 /\ Len(output.data) = 2

UsesConnection ==
    node = "Ethereum" \/ (node = "EthereumSign" /\ Trim(params.rpcUrl) # "")

\* C7: a run that uses a connection probes it at most once, has probed it exactly
\* once and found it up before any item starts or any record exists, and after a
\* failed probe has failed with the connection error, no item started, no record.
C7_ProbeOnceBeforeItems ==
    /\ probes <= 1
    /\ (UsesConnection /\ (started # {} \/ returnData # <<>> \/ output.returned))
          => probes = 1 /\ network.state = "up" /\ provider = "connected"
    /\ network.state = "unreachable"
          => /\ pc = "failed" /\ err = "RPC failed"
             /\ started = {} /\ returnData = <<>> /\ ~output.returned

C7_Witness ==
    /\ node = "Ethereum" /\ network.state = "unreachable" /\ pc = "failed"
    /\ probes = 1 /\ Len(items) = 2

\* C8: no transaction request and no output record of transfer or transferERC20
\* carries a negative amount.
C8_AmountsNonNegative ==
    /\ \A k \in 1..Len(txRequests) : ~txRequests[k].value.neg
    /\ \A k \in 1..Len(returnData) :
          /\ returnData[k].json.kind = "transfer" => ~returnData[k].json.value.neg
          /\ returnData[k].json.kind = "transferERC20" => ~returnData[k].json.amount.neg

-----------------------------------------------------------------------------
(* Properties of the amount conversions (SpecConv) *)

ConvNeg == Len(conv.str) >= 1 /\ conv.str[1] = "-"

ConvBody == IF ConvNeg THEN Tail(conv.str) ELSE conv.str

\* [-]digits.digits with at least one digit and nothing else
DecimalShaped ==
    /\ Cardinality({k \in 1..Len(ConvBody) : ConvBody[k] = "."}) = 1
    /\ \A k \in 1..Len(ConvBody) : ConvBody[k] = "." \/ IsDigit(ConvBody[k])
    /\ Len(ConvBody) >= 2

\* [-]digits and nothing else
IntegerShaped ==
    /\ Len(ConvBody) >= 1
    /\ \A k \in 1..Len(ConvBody) : IsDigit(ConvBody[k])

DotAt == CHOOSE k \in 1..Len(ConvBody) : ConvBody[k] = "."

IntChars == SubSeq(ConvBody, 1, DotAt - 1)

FracChars == SubSeq(ConvBody, DotAt + 1, Len(ConvBody))

ZeroChars(n) == [k \in 1..n |-> "0"]

\* the digits of the string's value times 10^d, what lies beyond d places cut off
ShiftedChars(d) ==
    IF Len(FracChars) >= d THEN IntChars \o SubSeq(FracChars, 1, d)
    ELSE IntChars \o FracChars \o ZeroChars(d - Len(FracChars))

RECURSIVE StripZeroChars(_)
StripZeroChars(c) ==
    IF Len(c) = 0 THEN <<"0">>
    ELSE IF c[1] = "0" /\ Len(c) > 1 THEN StripZeroChars(Tail(c))
    ELSE c

\* b is the integer written by the digit characters c, negated when neg
Denotes(b, neg, c) ==
    /\ b.ok
    /\ [k \in 1..Len(b.mag) |-> DigitChars[b.mag[k] + 1]] = StripZeroChars(c)
    /\ b.neg = (neg /\ StripZeroChars(c) # <<"0">>)

ConvPlaces == IF conv.kind = "native" THEN NativeDecimals ELSE conv.decimals

\* C9: a decimal string with a fractional separator converts, at d decimals, to its
\* value times 10^d with the digits beyond d places truncated toward zero.
C9_TruncatesTowardZero ==
    (conv.done /\ DecimalShaped) => Denotes(conv.out, ConvNeg, ShiftedChars(ConvPlaces))

BlankRpc == Trim(params.rpcUrl) = ""

\* C11: with a blank RPC URL every operation of the Ethereum node fails with the
\* missing-endpoint error before any probe, item, record read, request or output;
\* EthereumSign with a blank RPC URL never probes, never compares chain ids, runs
\* without a provider, and when it returns it returns one record per item in order.
C11_EndpointRequiredOrOptional ==
    /\ (node = "Ethereum" /\ BlankRpc) =>
          /\ probes = 0 /\ network = Unprobed /\ provider = "none"
          /\ started = {} /\ readLog = {} /\ txRequests = <<>>
          /\ returnData = <<>> /\ output = NoOutput
          /\ pc \in {"start", "failed"}
          /\ pc = "failed" => err = "RPC URL is required"
    /\ (node = "EthereumSign" /\ BlankRpc) =>
          /\ probes = 0 /\ network = Unprobed /\ provider = "none"
          /\ err \notin {"RPC failed", "Chain ID mismatch", "RPC URL is required"}
          /\ pc = "failed" => started # {}
          /\ pc = "returned" =>
                Len(output.data) = Len(items) /\ TaggedInOrder(output.data)

C11_Witness ==
    /\ node = "EthereumSign" /\ BlankRpc /\ params.chainId = 137
    /\ pc = "returned" /\ Len(items) = MaxItems /\ Len(output.data) = MaxItems
    /\ probes = 0

TransferRun == node = "Ethereum" /\ Op \in {"transfer", "transferERC20"}

\* the statements of one Transfer or TransferERC20 iteration, in program order
StepOrder == <<"signer", "recipient", "amount", "wallet", "submit", "wait", "emit">>

IsPrefix(s, t) == Len(s) <= Len(t) /\ s = SubSeq(t, 1, Len(s))

\* the transaction requests made for item idx
RequestsOf(idx) == {k \in 1..Len(txRequests) : txRequests[k].item = idx}

\* C12: in Transfer and TransferERC20 the steps of an item are taken in the order
\* signer key, recipient, amount, wallet, submit, wait, emit, none skipped and none
\* repeated; a request is handed to the signer only after key, recipient and amount
\* are resolved and the wallet is built from the key, and a record is emitted only
\* for an item whose own transaction has been mined.
C12_StepsInOrder ==
    TransferRun =>
        /\ IsPrefix(cur.steps, StepOrder)
        /\ (pc \in {"loop", "returned"} /\ returnData # <<>>) => cur.steps = StepOrder
        /\ \A k \in 1..Len(txRequests) :
              /\ txRequests[k].from # Null /\ txRequests[k].value.ok
              /\ txRequests[k].item \in started
              /\ txRequests[k].item = i /\ pc # "loop" =>
                    /\ IsPrefix(SubSeq(StepOrder, 1, 4), cur.steps)
                    /\ cur.privateKey # Null /\ cur.valueStr # Null /\ cur.valueWei.ok
                    /\ txRequests[k].from = WalletAddress(cur.privateKey)
                    /\ txRequests[k].to = cur.toAddress
                    /\ txRequests[k].value = cur.valueWei
        /\ \A k \in 1..Len(returnData) :
              LET h == returnData[k].json.hash
              IN  /\ h \in RequestsOf(returnData[k].pairedItem)
                  /\ txRequests[h].state = "mined"

C12_Witness ==
    /\ TransferRun /\ Op = "transferERC20" /\ pc = "returned"
    /\ Len(output.data) = MaxItems /\ cur.steps = StepOrder
    /\ \A k \in 1..MaxItems : txRequests[k].state = "mined"

\* the requests the endpoint has taken and whose receipt has not arrived
Pending == {k \in 1..Len(txRequests) : txRequests[k].state = "pending"}

\* the loop is between two items, or not yet or no longer running
BetweenItems == pc \in {"start", "connect", "dispatch", "loop", "returned"}

\* C13: the items of the Ethereum node's loop run strictly one after another: the
\* items started are 0..i with every item below i complete (its record emitted,
\* its transaction mined), at most one transaction is submitted and unconfirmed
\* and it belongs to the current item at its receipt wait, and the only reads in
\* flight together are the two of one getERC20Balance item.
C13_OneItemAtATime ==
    (node = "Ethereum" /\ PerItemRun) =>
        /\ started \subseteq 0..i /\ 0..(i - 1) \subseteq started
        /\ BetweenItems => i \notin started
        /\ Len(returnData) = i
        /\ \A k \in 1..Len(returnData) : returnData[k].pairedItem = k - 1
        /\ \A k \in 1..Len(txRequests) :
              txRequests[k].item < i => txRequests[k].state = "mined"
        /\ Cardinality(Pending) <= 1
        /\ \A k \in Pending : txRequests[k].item = i /\ pc \in {"t_wait", "e_wait"}
        /\ cur.calls # {} => pc \in {"eb_await", "failed"} /\ i \in started
        /\ pc = FirstStep(Op) => Pending = {} /\ cur.calls = {} /\ cur.steps = <<>>

C13_Witness ==
    /\ node = "Ethereum" /\ Op = "transfer" /\ i = 1 /\ pc = "t_wait"
    /\ txRequests[1].state = "mined" /\ Pending = {2} /\ Len(returnData) = 1

\* both reads of one getERC20Balance item are in flight together
C13_WitnessPromiseAll ==
    /\ node = "Ethereum" /\ Op = "getERC20Balance" /\ i = 1
    /\ Cardinality(cur.calls) = 2

\* item idx has its record in data
HasRecord(data, idx) == \E k \in 1..Len(data) : data[k].pairedItem = idx

\* what holds of the outcome in every state
AllOrNothing ==
    /\ pc = "failed" => output = NoOutput /\ err # "none"
    /\ output.returned =>
          /\ pc = "returned" /\ err = "none"
          /\ PerItemRun =>
                /\ output.data = returnData
                /\ \A idx \in started : HasRecord(output.data, idx)
                /\ \A k \in 1..Len(txRequests) : txRequests[k].state = "mined"

\* a mined transaction stays as it is, and a failed run stays failed
NeverUndone ==
    /\ \A k \in 1..Len(txRequests) :
          txRequests[k].state = "mined" =>
              k <= Len(txRequests') /\ txRequests'[k] = txRequests[k]
    /\ pc = "failed" => pc' = "failed" /\ output' = NoOutput

\* C14: a run returns all or nothing: a failed run has returned no record at all,
\* whatever it had accumulated for the items before the failing one; a run that
\* returns has a record for every item it started and every transaction mined;
\* and a transaction once mined is never changed or removed, failure included.
C14_NoPartialSuccess == [](AllOrNothing) /\ [][NeverUndone]_vars

C14_Witness ==
    /\ node = "Ethereum" /\ Op = "transfer" /\ pc = "failed" /\ i = 1
    /\ Len(returnData) = 1 /\ txRequests[1].state = "mined"
    /\ output = NoOutput

\* the errors the Ethereum node raises itself inside the loop, worded `Item ${i + 1}: ...`
ItemErrors == {"missing private key", "address is required"}

\* the item number such an error names
ErrItem == i + 1

\* C15: with no input record, a per-item operation of the Ethereum node runs its
\* loop body once, on item 0 whose record is empty: when it returns it returns one
\* record tagged 0, and when its own checks abort it the error names item 1 (the
\* transfers always so, the synthetic record having no key; a balance read the
\* endpoint fails aborts the same item with the library's error); EthereumSign
\* with no input record starts no item, reads and signs nothing, and returns no
\* record.
C15_EmptyInput ==
    Len(items) = 0 =>
        /\ (node = "Ethereum" /\ PerItemRun) =>
              /\ started \subseteq {0}
              /\ \A r \in readLog : r[1] = 0
              /\ pc = "returned" =>
                    /\ started = {0}
                    /\ Len(output.data) = 1 /\ output.data[1].pairedItem = 0
              /\ (pc = "failed" /\ started = {0}) =>
                    /\ ErrItem = 1
                    /\ err \in ItemErrors \/ (err = "network error" /\ ~TransferRun)
              /\ TransferRun => pc # "returned" /\ txRequests = <<>> /\ returnData = <<>>
        /\ node = "EthereumSign" =>
              /\ started = {} /\ readLog = {} /\ signatures = {} /\ returnData = <<>>
              /\ pc \in {"start", "s_connect", "s_loop", "returned", "failed"}
              /\ pc = "failed" => err \in {"RPC failed", "Chain ID mismatch"}
              /\ pc = "returned" => output.data = <<>>

C15_Witness ==
    /\ Len(items) = 0 /\ node = "Ethereum" /\ Op = "getBalance"
    /\ pc = "returned" /\ started = {0}
    /\ Len(output.data) = 1 /\ output.data[1].pairedItem = 0

\* the two other outcomes of an empty input: the 'Item 1' error, the empty output
C15_WitnessItemError ==
    /\ Len(items) = 0 /\ node = "Ethereum" /\ Op = "transfer"
    /\ pc = "failed" /\ err = "missing private key" /\ ErrItem = 1

C15_WitnessSign ==
    /\ Len(items) = 0 /\ node = "EthereumSign" /\ pc = "returned" /\ output.data = <<>>

\* the requests the endpoint took: the transactions submitted so far
Submitted == {k \in 1..Len(txRequests) : txRequests[k].state # "rejected"}

\* C16: in Transfer and TransferERC20 no item makes a second request, and the
\* number of transactions submitted is the number of records accumulated or one
\* more; the one more is the current item's transaction, awaiting its receipt, or
\* confirmed with its record the next statement, or unconfirmed in a failed run.
C16_SubmittedVersusEmitted ==
    TransferRun =>
        /\ \A idx \in 0..Len(WorkItems) : Cardinality(RequestsOf(idx)) <= 1
        /\ Cardinality(Submitted) \in {Len(returnData), Len(returnData) + 1}
        /\ \A k \in Submitted : k <= Len(returnData) => returnData[k].json.hash = k
        /\ Cardinality(Submitted) = Len(returnData) + 1 =>
              LET last == txRequests[Len(txRequests)]
              IN  /\ Len(txRequests) \in Submitted /\ last.item = i
                  /\ \/ pc \in {"t_wait", "e_wait"} /\ last.state = "pending"
                     \/ pc \in {"t_push", "e_push"} /\ last.state = "mined"
                     \/ pc = "failed" /\ err = "wait failed" /\ last.state = "unconfirmed"

C16_Witness ==
    /\ TransferRun /\ pc = "failed" /\ err = "wait failed" /\ i = 1
    /\ Len(returnData) = 1 /\ Submitted = {1, 2}
    /\ txRequests[2].state = "unconfirmed"

====
